---- MODULE Spec2Model ----
(***************************************************************************)
(* Model of the URDF scene compiler of src/src/main.rs: the Bevy startup   *)
(* schedule (setup_field, and the chain setup_links, apply_system_buffers, *)
(* setup_joints, add_link_visuals), the command buffers of the systems and *)
(* the entity world the buffers are applied to.                            *)
(*                                                                         *)
(* Numbers: f32/f64 values are integers here; the inputs are chosen so     *)
(* that every operation of the code on them is exact (sizes are even, so   *)
(* the half extents are integers; angles are whole quarter turns, so the   *)
(* rotation matrices are integer matrices).  The `as f32` casts are exact  *)
(* on these values.                                                        *)
(***************************************************************************)
EXTENDS Integers, Sequences, FiniteSets, TLC

VARIABLES urdf,      \* RobotSpecification.urdf: [links, joints]
          eigen,     \* the eigenbasis nalgebra returns for the non-diagonal tensor
          pos,       \* position in the chained startup systems (1..ChainLen+2)
          field_done,\* setup_field has run
          buffers,   \* command buffer of each system that has run, not yet applied
          world,     \* entity id -> record of its components
          reserved,  \* number of entity ids handed out by Commands::spawn
          panic      \* <<>>, or <<[system, message, at]>> once a system has panicked

vars == <<urdf, eigen, pos, field_done, buffers, world, reserved, panic>>

-----------------------------------------------------------------------------
(* Option<T> *)
None == <<>>
Some(v) == <<v>>

(* 3-vectors and 3x3 matrices (tuples of rows) *)
Vec3(x, y, z) == <<x, y, z>>
Vec3ZERO == <<0, 0, 0>>
Vec3ONE == <<1, 1, 1>>
Matrix3zeros == <<<<0, 0, 0>>, <<0, 0, 0>>, <<0, 0, 0>>>>
Matrix3identity == <<<<1, 0, 0>>, <<0, 1, 0>>, <<0, 0, 1>>>>

MatMul(a, b) ==
    [i \in 1..3 |-> [j \in 1..3 |->
        a[i][1] * b[1][j] + a[i][2] * b[2][j] + a[i][3] * b[3][j]]]

Transpose(a) == [i \in 1..3 |-> [j \in 1..3 |-> a[j][i]]]

MatScale(k, a) == [i \in 1..3 |-> [j \in 1..3 |-> k * a[i][j]]]

(* cosine and sine of q quarter turns *)
Cos4(q) == <<1, 0, -1, 0>>[(q % 4) + 1]
Sin4(q) == <<0, 1, 0, -1>>[(q % 4) + 1]

RotX(q) == <<<<1, 0, 0>>, <<0, Cos4(q), -Sin4(q)>>, <<0, Sin4(q), Cos4(q)>>>>
RotY(q) == <<<<Cos4(q), 0, Sin4(q)>>, <<0, 1, 0>>, <<-Sin4(q), 0, Cos4(q)>>>>
RotZ(q) == <<<<Cos4(q), -Sin4(q), 0>>, <<Sin4(q), Cos4(q), 0>>, <<0, 0, 1>>>>

(* glam Quat::from_euler(EulerRot::ZYX, a, b, c): first angle about Z, second
   about Y, third about X; the rotation is R_z(a) * R_y(b) * R_x(c).  A
   rotation is represented by its matrix. *)
QuatFromEulerZYX(a, b, c) == MatMul(MatMul(RotZ(a), RotY(b)), RotX(c))

QuatIDENTITY == Matrix3identity

-----------------------------------------------------------------------------
(* rapier collision groups: a Group is a set of bit positions *)
GROUP_1 == {1}
GROUP_2 == {2}
GROUP_3 == {3}
GroupALL == 1..32

CollisionGroupsNew(memberships, filters) ==
    [memberships |-> memberships, filters |-> filters]

(* FieldDimensions::default(), in hundredths of a metre *)
FieldDimensionsDefault ==
    [ball_radius |-> 5, length |-> 900, width |-> 600, border_strip_width |-> 70]

-----------------------------------------------------------------------------
(* Collider constructors *)
ColliderCuboid(hx, hy, hz) == [shape |-> "cuboid", dims |-> <<hx, hy, hz>>]
ColliderCylinder(half_height, radius) ==
    [shape |-> "cylinder", dims |-> <<half_height, radius>>]
ColliderBall(radius) == [shape |-> "ball", dims |-> <<radius>>]
ColliderCapsuleZ(half_height, radius) ==
    [shape |-> "capsule_z", dims |-> <<half_height, radius>>]
ColliderCompound(shapes) == [shape |-> "compound", shapes |-> shapes]

(* a panic of the running system; `at` is the index of the link or joint the
   system was processing (bookkeeping, the panic message does not carry it) *)
Panic(system, message, at) ==
    [system |-> system, message |-> message, at |-> at]

TodoMessage == <<"not yet implemented">>
AssertOrthogonalMessage == <<"rotation matrix not orthogonal">>
UnwrapNoneMessage == <<"called Option::unwrap on a None value">>
NoEntryMessage == <<"no entry found for key">>

(* the collider of one collision primitive (the match on collision.geometry
   in setup_links): Some(collider), or None where the arm is the todo macro *)
GeometryCollider(geometry) ==
    CASE geometry.kind = "Box" ->
            Some(ColliderCuboid(geometry.size[1] \div 2, geometry.size[2] \div 2,
                                geometry.size[3] \div 2))
      [] geometry.kind = "Cylinder" ->
            Some(ColliderCylinder(geometry.length \div 2, geometry.radius))
      [] geometry.kind = "Sphere" -> Some(ColliderBall(geometry.radius))
      [] geometry.kind = "Capsule" ->
            Some(ColliderCapsuleZ(geometry.length \div 2, geometry.radius))
      [] geometry.kind = "Mesh" -> None

(* one element of `shapes`: (position, rotation, collider) *)
CollisionShape(collision) ==
    [position |-> Vec3(collision.origin.xyz[1], collision.origin.xyz[2],
                       collision.origin.xyz[3]),
     rotation |-> QuatFromEulerZYX(collision.origin.rpy[3], collision.origin.rpy[2],
                                   collision.origin.rpy[1]),
     collider |-> GeometryCollider(collision.geometry)[1]]

(* the index of the first collision primitive whose arm panics, 0 if none *)
FirstMeshCollision(link) ==
    LET bad == {k \in 1..Len(link.collision) :
                    GeometryCollider(link.collision[k].geometry) = None}
    IN IF bad = {} THEN 0 ELSE CHOOSE k \in bad : \A m \in bad : k <= m

(* the shapes with every primitive after the first dropped *)
ShapesFirstOnly(link) ==
    [k \in 1..(IF Len(link.collision) > 0 THEN 1 ELSE 0) |->
        CollisionShape(link.collision[k])]

Shapes(link) == [k \in 1..Len(link.collision) |-> CollisionShape(link.collision[k])]

-----------------------------------------------------------------------------
(* commands queued in a system's Commands buffer *)
SpawnCmd(entity, bundle) == [op |-> "spawn", entity |-> entity, bundle |-> bundle]
InsertCmd(entity, bundle) == [op |-> "insert", entity |-> entity, bundle |-> bundle]
AddChildCmd(parent, child) == [op |-> "add_child", parent |-> parent, child |-> child]

RECURSIVE Flatten(_)
Flatten(seqs) == IF seqs = <<>> THEN <<>> ELSE Head(seqs) \o Flatten(Tail(seqs))

(* Transform::default(), and Transform { translation, rotation, ..default } *)
TransformNew(translation, rotation, scale) ==
    [translation |-> translation, rotation |-> rotation, scale |-> scale]
TransformIDENTITY == TransformNew(Vec3ZERO, QuatIDENTITY, Vec3ONE)

-----------------------------------------------------------------------------
(* Inertia *)
InertiaMatrix(i) ==
    <<<<i.ixx, i.ixy, i.ixz>>,
      <<i.ixy, i.iyy, i.iyz>>,
      <<i.ixz, i.iyz, i.izz>>>>

IsDiagonal(m) == \A r, c \in 1..3 : r # c => m[r][c] = 0

(* nalgebra SymmetricEigen::new(m): [eigenvalues, eigenvectors, scale], the
   eigenvector matrix being eigenvectors / scale.  For a diagonal matrix the
   Householder tridiagonalisation applies no reflection and the QR iteration
   has nothing to do: the eigenvectors are exactly the identity and the
   eigenvalues the diagonal, in place.  For the non-diagonal tensor of the
   inputs the decomposition is `basis`: the library fixes the order and the
   signs of the columns, the code does not. *)
SymmetricEigen(m, basis) ==
    IF IsDiagonal(m)
    THEN [eigenvalues |-> <<m[1][1], m[2][2], m[3][3]>>,
          eigenvectors |-> Matrix3identity, scale |-> 1]
    ELSE basis

(* Matrix::is_orthogonal: M^T * M is the identity *)
IsOrthogonal(evd) ==
    MatMul(Transpose(evd.eigenvectors), evd.eigenvectors)
        = MatScale(evd.scale * evd.scale, Matrix3identity)

(* UnitQuaternion::from_basis_unchecked(columns).axis(): from_rotation_matrix
   takes the vector part from the antisymmetric part of the matrix when the
   trace is positive (and a nonzero vector part otherwise); axis() is None
   when the vector part is zero. *)
QuatAxisIsNone(evd) ==
    LET m == evd.eigenvectors
    IN /\ m[1][1] + m[2][2] + m[3][3] > 0
       /\ m[3][2] - m[2][3] = 0
       /\ m[1][3] - m[3][1] = 0
       /\ m[2][1] - m[1][2] = 0

(* Quat::from_axis_angle(quat.axis, quat.angle): the rotation of the basis *)
QuatFromAxisAngle(evd) == [matrix |-> evd.eigenvectors, scale |-> evd.scale]

InertiaIsNonZero(inertia_matrix) == inertia_matrix # Matrix3zeros

(* the panic of the mass_properties block of setup_links, None if it returns *)
MassPropertiesPanic(link, basis) ==
    LET inertia_matrix == InertiaMatrix(link.inertial.inertia)
        evd == SymmetricEigen(inertia_matrix, basis)
    IN IF InertiaIsNonZero(inertia_matrix)
       THEN IF ~IsOrthogonal(evd) THEN Some(AssertOrthogonalMessage)
            ELSE IF QuatAxisIsNone(evd) THEN Some(UnwrapNoneMessage)
            ELSE None
       ELSE None

(* mass_properties without the test for the zero matrix *)
MassPropertiesOfUnguarded(link, basis) ==
    LET inertial == link.inertial
        evd == SymmetricEigen(InertiaMatrix(inertial.inertia), basis)
    IN Some([variant |-> "MassProperties",
             local_center_of_mass |->
                 Vec3(inertial.origin.xyz[1], inertial.origin.xyz[2], inertial.origin.xyz[3]),
             mass |-> inertial.mass,
             principal_inertia_local_frame |-> QuatFromAxisAngle(evd),
             principal_inertia |->
                 Vec3(evd.eigenvalues[1], evd.eigenvalues[2], evd.eigenvalues[3])])

(* the value of mass_properties: Option<ColliderMassProperties> *)
MassPropertiesOf(link, basis) ==
    LET inertial == link.inertial
        inertia_matrix == InertiaMatrix(inertial.inertia)
        evd == SymmetricEigen(inertia_matrix, basis)
    IN IF InertiaIsNonZero(inertia_matrix)
       THEN Some([variant |-> "MassProperties",
                  local_center_of_mass |->
                      Vec3(inertial.origin.xyz[1], inertial.origin.xyz[2],
                           inertial.origin.xyz[3]),
                  mass |-> inertial.mass,
                  principal_inertia_local_frame |-> QuatFromAxisAngle(evd),
                  principal_inertia |->
                      Vec3(evd.eigenvalues[1], evd.eigenvalues[2], evd.eigenvalues[3])])
       ELSE None

(* the panic of one iteration of the loop of setup_links, None if it completes:
   the collision shapes are built first, then the mass properties *)
LinkPanic(link, basis) ==
    IF FirstMeshCollision(link) # 0 THEN Some(TodoMessage)
    ELSE MassPropertiesPanic(link, basis)

LinkSpawnBundle(link) ==
    [NaoLink |-> link.name,
     Transform |-> TransformIDENTITY,
     GlobalTransform |-> TransformIDENTITY,
     Visibility |-> "Inherited",
     ComputedVisibility |-> "HIDDEN"]

HasPositiveMass(link) == link.inertial.mass > 0

(* link groups whose filter is every group *)
LinkCollisionGroupsAll == CollisionGroupsNew(GROUP_2, GroupALL)

(* the collision groups of a link: member of group 2, filtering groups 1 and 3 *)
LinkCollisionGroups == CollisionGroupsNew(GROUP_2, GROUP_1 \cup GROUP_3)

(* the commands of a loop that inserts the plain mass after the mass
   properties *)
LinkCommandsMassLast(link, id, basis) ==
    LET mass_properties == MassPropertiesOf(link, basis)
        shapes == Shapes(link)
    IN <<SpawnCmd(id, LinkSpawnBundle(link))>>
       \o (IF mass_properties # None
           THEN <<InsertCmd(id, [ColliderMassProperties |-> mass_properties[1]])>>
           ELSE <<>>)
       \o (IF HasPositiveMass(link)
           THEN <<InsertCmd(id, [RigidBody |-> "Fixed",
                                 ColliderMassProperties |->
                                     [variant |-> "Mass", mass |-> link.inertial.mass]])>>
           ELSE <<>>)
       \o (IF shapes # <<>>
           THEN <<InsertCmd(id, [Collider |-> ColliderCompound(shapes)]),
                  InsertCmd(id, [CollisionGroups |-> LinkCollisionGroups])>>
           ELSE <<>>)

(* the commands one iteration of the loop of setup_links queues for the link,
   spawned as entity `id` *)
LinkCommands(link, id, basis) ==
    LET mass_properties == MassPropertiesOf(link, basis)
        shapes == Shapes(link)
    IN <<SpawnCmd(id, LinkSpawnBundle(link))>>
       \o (IF HasPositiveMass(link)
           THEN <<InsertCmd(id, [RigidBody |-> "Fixed",
                                 ColliderMassProperties |->
                                     [variant |-> "Mass", mass |-> link.inertial.mass]])>>
           ELSE <<>>)
       \o (IF mass_properties # None
           THEN <<InsertCmd(id, [ColliderMassProperties |-> mass_properties[1]])>>
           ELSE <<>>)
       \o (IF shapes # <<>>
           THEN <<InsertCmd(id, [Collider |-> ColliderCompound(shapes)]),
                  InsertCmd(id, [CollisionGroups |-> LinkCollisionGroups])>>
           ELSE <<>>)

(* the index of the first link whose iteration panics, 0 if none *)
FirstLinkPanic(links, basis) ==
    LET bad == {k \in 1..Len(links) : LinkPanic(links[k], basis) # None}
    IN IF bad = {} THEN 0 ELSE CHOOSE k \in bad : \A m \in bad : k <= m

(* the commands of the first n iterations, the links spawned from id base+1 *)
SetupLinksCommands(links, n, base, basis) ==
    Flatten([k \in 1..n |-> LinkCommands(links[k], base + k, basis)])

-----------------------------------------------------------------------------
(* Joints *)

(* rapier JointAxesMask of the joint builders *)
LinAxes == {"X", "Y", "Z"}
AngAxes == {"ANG_X", "ANG_Y", "ANG_Z"}
LOCKED_REVOLUTE_AXES == {"X", "Y", "Z", "ANG_Y", "ANG_Z"}
LOCKED_PRISMATIC_AXES == {"Y", "Z", "ANG_X", "ANG_Y", "ANG_Z"}
LOCKED_FIXED_AXES == {"X", "Y", "Z", "ANG_X", "ANG_Y", "ANG_Z"}
LOCKED_SPHERICAL_AXES == {"X", "Y", "Z"}

(* GenericJoint: side 1 is the parent named by ImpulseJoint::new, side 2 the
   entity that carries the ImpulseJoint component *)
GenericJoint(locked_axes, local_axis, local_anchor1, local_basis1) ==
    [locked_axes |-> locked_axes,
     local_axis1 |-> local_axis, local_axis2 |-> local_axis,
     local_anchor1 |-> local_anchor1, local_anchor2 |-> Vec3ZERO,
     local_basis1 |-> local_basis1, local_basis2 |-> QuatIDENTITY]

(* the match with the builders of Revolute and Prismatic exchanged *)
JointDataExchanged(joint_type, axis, translation, rotation) ==
    CASE joint_type = "Revolute" ->
            Some(GenericJoint(LOCKED_PRISMATIC_AXES, Some(axis), translation, QuatIDENTITY))
      [] joint_type = "Continuous" -> None
      [] joint_type = "Prismatic" ->
            Some(GenericJoint(LOCKED_REVOLUTE_AXES, Some(axis), translation, QuatIDENTITY))
      [] joint_type = "Fixed" ->
            Some(GenericJoint(LOCKED_FIXED_AXES, None, translation, rotation))
      [] joint_type = "Spherical" ->
            Some(GenericJoint(LOCKED_SPHERICAL_AXES, None, translation, QuatIDENTITY))

(* the match on joint.joint_type in setup_joints: Some(joint data) for the
   kinds that insert an ImpulseJoint, None for Continuous *)
JointData(joint_type, axis, translation, rotation) ==
    CASE joint_type = "Revolute" ->
            Some(GenericJoint(LOCKED_REVOLUTE_AXES, Some(axis), translation, QuatIDENTITY))
      [] joint_type = "Continuous" -> None
      [] joint_type = "Prismatic" ->
            Some(GenericJoint(LOCKED_PRISMATIC_AXES, Some(axis), translation, QuatIDENTITY))
      [] joint_type = "Fixed" ->
            Some(GenericJoint(LOCKED_FIXED_AXES, None, translation, rotation))
      [] joint_type = "Spherical" ->
            Some(GenericJoint(LOCKED_SPHERICAL_AXES, None, translation, QuatIDENTITY))

(* the arms of the match that are the todo macro *)
TodoJointTypes == {"Floating", "Planar"}

ImpulseJointNew(parent, data) == [parent |-> parent, data |-> data]

(* Query<(Entity, &NaoLink)> *)
NaoLinkEntities(w) == {e \in DOMAIN w : "NaoLink" \in DOMAIN w[e]}

(* link_to_entity: the query is iterated in an order the ECS does not
   specify and every (name, entity) pair is inserted, a later insert of the
   same name replacing the earlier one: the map sends each name some entity
   carries to one of the entities that carry it. *)
LinkToEntityMaps(w) ==
    LET names == {w[e].NaoLink : e \in NaoLinkEntities(w)}
    IN {f \in [names -> NaoLinkEntities(w)] : \A n \in names : w[f[n]].NaoLink = n}

(* the panic of one iteration of the loop of setup_joints, None if it completes *)
JointPanic(joint, link_to_entity) ==
    IF joint.parent \notin DOMAIN link_to_entity THEN Some(NoEntryMessage)
    ELSE IF joint.child \notin DOMAIN link_to_entity THEN Some(NoEntryMessage)
    ELSE IF joint.joint_type \in TodoJointTypes THEN Some(TodoMessage)
    ELSE None

JointTranslation(joint) ==
    Vec3(joint.origin.xyz[1], joint.origin.xyz[2], joint.origin.xyz[3])

JointRotation(joint) ==
    QuatFromEulerZYX(joint.origin.rpy[3], joint.origin.rpy[2], joint.origin.rpy[1])

(* the commands one iteration of the loop of setup_joints queues; when the
   match panics the two commands before it are queued already *)
JointCommands(joint, link_to_entity) ==
    IF joint.parent \notin DOMAIN link_to_entity \/ joint.child \notin DOMAIN link_to_entity
    THEN <<>>
    ELSE
    LET parent_id == link_to_entity[joint.parent]
        child_id == link_to_entity[joint.child]
        translation == JointTranslation(joint)
        rotation == JointRotation(joint)
        axis == Vec3(joint.axis[1], joint.axis[2], joint.axis[3])
        head == <<AddChildCmd(parent_id, child_id),
                  InsertCmd(child_id, [Transform |->
                      TransformNew(translation, rotation, Vec3ONE)])>>
    IN IF joint.joint_type \in TodoJointTypes THEN head
       ELSE LET data == JointData(joint.joint_type, axis, translation, rotation)
            IN IF data = None THEN head
               ELSE head \o <<InsertCmd(child_id,
                                 [ImpulseJoint |-> ImpulseJointNew(parent_id, data[1])])>>

FirstJointPanic(joints, link_to_entity) ==
    LET bad == {k \in 1..Len(joints) : JointPanic(joints[k], link_to_entity) # None}
    IN IF bad = {} THEN 0 ELSE CHOOSE k \in bad : \A m \in bad : k <= m

SetupJointsCommands(joints, n, link_to_entity) ==
    Flatten([k \in 1..n |-> JointCommands(joints[k], link_to_entity)])

-----------------------------------------------------------------------------
(* Visuals *)

(* the (mesh, scale) of a visual *)
VisualMesh(geometry) ==
    IF geometry.kind = "Mesh"
    THEN [mesh |-> <<"load", geometry.filename>>,
          scale |-> IF geometry.scale = None THEN Vec3ONE ELSE geometry.scale[1]]
    ELSE [mesh |-> <<"default">>, scale |-> Vec3ONE]

(* the material handle of a visual *)
VisualMaterial(material) ==
    IF material # None /\ material[1].texture # None
        THEN <<"load", material[1].texture[1]>>
    ELSE IF material # None /\ material[1].color # None
        THEN <<"color", material[1].color[1]>>
    ELSE <<"color", <<1, 1, 1, 1>>>>

VisualTransform(visual) ==
    TransformNew(Vec3(visual.origin.xyz[1], visual.origin.xyz[2], visual.origin.xyz[3]),
                 QuatFromEulerZYX(visual.origin.rpy[3], visual.origin.rpy[2],
                                  visual.origin.rpy[1]),
                 VisualMesh(visual.geometry).scale)

(* the commands of the closure of add_link_visuals for one visual, spawned as
   entity `id` and attached to current_link *)
VisualCommands(visual, id, current_link) ==
    <<SpawnCmd(id, [Mesh |-> VisualMesh(visual.geometry).mesh,
                    Material |-> VisualMaterial(visual.material),
                    Transform |-> VisualTransform(visual),
                    GlobalTransform |-> TransformIDENTITY,
                    Visibility |-> "Inherited",
                    ComputedVisibility |-> "HIDDEN"]),
      InsertCmd(id, [RigidBody |-> "Dynamic"]),
      AddChildCmd(current_link, id)>>

(* the number of visuals of the links before link k *)
RECURSIVE VisualsBefore(_, _)
VisualsBefore(links, k) ==
    IF k <= 1 THEN 0 ELSE VisualsBefore(links, k - 1) + Len(links[k - 1].visual)

FirstVisualPanic(links, link_to_entity) ==
    LET bad == {k \in 1..Len(links) : links[k].name \notin DOMAIN link_to_entity}
    IN IF bad = {} THEN 0 ELSE CHOOSE k \in bad : \A m \in bad : k <= m

AddLinkVisualsCommands(links, n, base, link_to_entity) ==
    Flatten([k \in 1..n |->
        Flatten([v \in 1..Len(links[k].visual) |->
            VisualCommands(links[k].visual[v], base + VisualsBefore(links, k) + v,
                           link_to_entity[links[k].name])])])

-----------------------------------------------------------------------------
(* setup_field: the field, the ball and the light *)
SetupFieldCommands(base, fd) ==
    LET ground_size == <<fd.length + fd.border_strip_width * 2,
                         fd.width + fd.border_strip_width * 2>>
        field == base + 1
        ball == base + 2
        light == base + 3
    IN <<SpawnCmd(field, [Mesh |-> <<"quad", ground_size>>,
                          Material |-> <<"field">>,
                          Transform |-> TransformNew(Vec3(0, 0, -100), QuatIDENTITY, Vec3ONE),
                          GlobalTransform |-> TransformIDENTITY,
                          Visibility |-> "Inherited",
                          ComputedVisibility |-> "HIDDEN"]),
         InsertCmd(field, [Collider |->
                      ColliderCuboid(ground_size[1] \div 2, ground_size[2] \div 2, 1)]),
         InsertCmd(field, [CollisionGroups |-> CollisionGroupsNew(GROUP_1, GroupALL)]),
         InsertCmd(field, [Name |-> "field"]),
         InsertCmd(field, [RigidBody |-> "Fixed"]),
         SpawnCmd(ball, [RigidBody |-> "Dynamic"]),
         InsertCmd(ball, [Name |-> "ball"]),
         InsertCmd(ball, [Mesh |-> <<"uvsphere", fd.ball_radius>>,
                          Material |-> <<"ball">>,
                          Transform |-> TransformIDENTITY,
                          GlobalTransform |-> TransformIDENTITY,
                          Visibility |-> "Inherited",
                          ComputedVisibility |-> "HIDDEN"]),
         InsertCmd(ball, [Collider |-> ColliderBall(fd.ball_radius)]),
         InsertCmd(ball, [CollisionGroups |-> CollisionGroupsNew(GROUP_3, GroupALL)]),
         InsertCmd(ball, [Restitution |-> 70]),
         InsertCmd(ball, [Transform |-> TransformNew(Vec3(3, 0, 400), QuatIDENTITY, Vec3ONE),
                          GlobalTransform |-> TransformIDENTITY]),
         SpawnCmd(light, [DirectionalLight |-> [shadows_enabled |-> TRUE],
                          Transform |-> TransformNew(Vec3(0, 0, 1000), <<"rotation_x", "-PI/4">>,
                                                     Vec3ONE),
                          GlobalTransform |-> TransformIDENTITY,
                          Visibility |-> "Inherited",
                          ComputedVisibility |-> "HIDDEN"])>>

-----------------------------------------------------------------------------
(* Applying commands to the world *)

RECURSIVE Retain(_, _)
(* Vec::retain(|value| child != *value) *)
Retain(seq, x) ==
    IF seq = <<>> THEN <<>>
    ELSE IF Head(seq) = x THEN Retain(Tail(seq), x)
    ELSE <<Head(seq)>> \o Retain(Tail(seq), x)

RemoveComponent(entity, component) ==
    [c \in DOMAIN entity \ {component} |-> entity[c]]

(* bevy_hierarchy add_child: the child's Parent is set (replacing a previous
   one, and leaving the previous parent's Children); the child is moved to the
   end of the new parent's Children.  No check for cycles is made. *)
AddChild(w, parent, child) ==
    LET previous == IF "Parent" \in DOMAIN w[child] THEN Some(w[child].Parent) ELSE None
        w1 == [w EXCEPT ![child] = [Parent |-> parent] @@ w[child]]
        w2 == IF previous # None /\ previous[1] # parent /\ "Children" \in DOMAIN w1[previous[1]]
              THEN LET kept == Retain(w1[previous[1]].Children, child)
                   IN [w1 EXCEPT ![previous[1]] =
                          IF kept = <<>> THEN RemoveComponent(w1[previous[1]], "Children")
                          ELSE [Children |-> kept] @@ w1[previous[1]]]
              ELSE w1
    IN [w2 EXCEPT ![parent] =
           IF "Children" \in DOMAIN w2[parent]
           THEN [Children |-> Append(Retain(w2[parent].Children, child), child)] @@ w2[parent]
           ELSE [Children |-> <<child>>] @@ w2[parent]]

ApplyCommand(w, c) ==
    CASE c.op = "spawn" ->
            [e \in DOMAIN w \cup {c.entity} |-> IF e = c.entity THEN c.bundle ELSE w[e]]
      [] c.op = "insert" -> [w EXCEPT ![c.entity] = c.bundle @@ w[c.entity]]
      [] c.op = "add_child" -> AddChild(w, c.parent, c.child)

RECURSIVE ApplyCommands(_, _)
ApplyCommands(w, cmds) ==
    IF cmds = <<>> THEN w ELSE ApplyCommands(ApplyCommand(w, Head(cmds)), Tail(cmds))

-----------------------------------------------------------------------------
(* The startup schedule *)

Systems == {"setup_field", "setup_links", "setup_joints", "add_link_visuals"}

(* the order the buffers of the systems are applied in *)
SystemOrder == <<"setup_field", "setup_links", "setup_joints", "add_link_visuals">>

(* the chain with setup_joints ahead of apply_system_buffers *)
ChainJointsBeforeApply ==
    <<"setup_links", "setup_joints", "apply_system_buffers", "add_link_visuals">>

(* .add_startup_systems((...).chain()) *)
Chain == <<"setup_links", "apply_system_buffers", "setup_joints", "add_link_visuals">>

ChainLen == Len(Chain)

Running == panic = None

AtSystem(name) == Running /\ pos \in 1..ChainLen /\ Chain[pos] = name

ChainFinished == pos > ChainLen

ScheduleFinished == pos > ChainLen + 1

AllBuffered == Flatten([k \in 1..Len(SystemOrder) |-> buffers[SystemOrder[k]]])

EmptyBuffers == [s \in Systems |-> <<>>]

-----------------------------------------------------------------------------
(* Actions: one per system of the startup schedule *)

(* setup_field is ordered against no system of the chain *)
setup_field ==
    /\ Running
    /\ ~field_done
    /\ ~ScheduleFinished
    /\ field_done' = TRUE
    /\ buffers' = [buffers EXCEPT !["setup_field"] =
                       SetupFieldCommands(reserved, FieldDimensionsDefault)]
    /\ reserved' = reserved + 3
    /\ UNCHANGED <<urdf, eigen, pos, world, panic>>

setup_links ==
    /\ AtSystem("setup_links")
    /\ LET links == urdf.links
           first == FirstLinkPanic(links, eigen)
           n == IF first = 0 THEN Len(links) ELSE first - 1
       IN /\ buffers' = [buffers EXCEPT !["setup_links"] =
                             SetupLinksCommands(links, n, reserved, eigen)]
          /\ reserved' = reserved + n
          /\ IF first = 0
             THEN pos' = pos + 1 /\ panic' = panic
             ELSE /\ pos' = pos
                  /\ panic' = Some(Panic("setup_links", LinkPanic(links[first], eigen)[1],
                                         first))
    /\ UNCHANGED <<urdf, eigen, field_done, world>>

(* the exclusive system apply_system_buffers: applies the buffers of the
   systems that have run *)
apply_system_buffers ==
    /\ AtSystem("apply_system_buffers")
    /\ world' = ApplyCommands(world, AllBuffered)
    /\ buffers' = EmptyBuffers
    /\ pos' = pos + 1
    /\ UNCHANGED <<urdf, eigen, field_done, reserved, panic>>

setup_joints ==
    /\ AtSystem("setup_joints")
    /\ \E link_to_entity \in LinkToEntityMaps(world) :
         LET joints == urdf.joints
             first == FirstJointPanic(joints, link_to_entity)
             n == IF first = 0 THEN Len(joints) ELSE first
         IN /\ buffers' = [buffers EXCEPT !["setup_joints"] =
                               SetupJointsCommands(joints, n, link_to_entity)]
            /\ IF first = 0
               THEN pos' = pos + 1 /\ panic' = panic
               ELSE /\ pos' = pos
                    /\ panic' = Some(Panic("setup_joints",
                                           JointPanic(joints[first], link_to_entity)[1],
                                           first))
    /\ UNCHANGED <<urdf, eigen, field_done, world, reserved>>

add_link_visuals ==
    /\ AtSystem("add_link_visuals")
    /\ \E link_to_entity \in LinkToEntityMaps(world) :
         LET links == urdf.links
             first == FirstVisualPanic(links, link_to_entity)
             n == IF first = 0 THEN Len(links) ELSE first - 1
         IN /\ buffers' = [buffers EXCEPT !["add_link_visuals"] =
                               AddLinkVisualsCommands(links, n, reserved, link_to_entity)]
            /\ reserved' = reserved + VisualsBefore(links, n + 1)
            /\ IF first = 0
               THEN pos' = pos + 1 /\ panic' = panic
               ELSE /\ pos' = pos
                    /\ panic' = Some(Panic("add_link_visuals", NoEntryMessage, first))
    /\ UNCHANGED <<urdf, eigen, field_done, world>>

(* the end of the startup schedule: every system has run, the buffers still
   unapplied are applied *)
startup_flush ==
    /\ Running
    /\ pos = ChainLen + 1
    /\ field_done
    /\ world' = ApplyCommands(world, AllBuffered)
    /\ buffers' = EmptyBuffers
    /\ pos' = pos + 1
    /\ UNCHANGED <<urdf, eigen, field_done, reserved, panic>>

Next ==
    \/ setup_field
    \/ setup_links
    \/ apply_system_buffers
    \/ setup_joints
    \/ add_link_visuals
    \/ startup_flush

-----------------------------------------------------------------------------
(* Inputs: robot descriptions *)

SeqsUpTo(S, n) == UNION {[1..k -> S] : k \in 0..n}

Origin(xyz, rpy) == [xyz |-> xyz, rpy |-> rpy]
OriginZero == Origin(<<0, 0, 0>>, <<0, 0, 0>>)
OriginTurned == Origin(<<1, 2, 3>>, <<1, 2, 3>>)

GeometryBox == [kind |-> "Box", size |-> <<2, 4, 6>>]
GeometryCylinder == [kind |-> "Cylinder", radius |-> 1, length |-> 4]
GeometrySphere == [kind |-> "Sphere", radius |-> 1]
GeometryCapsule == [kind |-> "Capsule", radius |-> 1, length |-> 2]
GeometryMesh == [kind |-> "Mesh", filename |-> "mesh.stl", scale |-> None]

Inertia(ixx, ixy, ixz, iyy, iyz, izz) ==
    [ixx |-> ixx, ixy |-> ixy, ixz |-> ixz, iyy |-> iyy, iyz |-> iyz, izz |-> izz]
InertiaZero == Inertia(0, 0, 0, 0, 0, 0)
InertiaDiag123 == Inertia(1, 0, 0, 2, 0, 3)
(* eigenvalues 1, 25, 50 with eigenvectors (1,0,0), (0,3,4)/5, (0,-4,3)/5 *)
InertiaCoupled == Inertia(1, 0, 0, 41, -12, 34)

FromColumns(c1, c2, c3) == [i \in 1..3 |-> <<c1[i], c2[i], c3[i]>>]
Neg(v) == <<-v[1], -v[2], -v[3]>>

(* the eigen-decompositions of InertiaCoupled: the first column is left alone
   by the tridiagonalisation; the order and the signs of the other two are
   the library's choice *)
EigenBases ==
    LET ex == <<5, 0, 0>>
        v1 == <<0, 3, 4>>
        v2 == <<0, -4, 3>>
    IN {[eigenvalues |-> <<1, 25, 50>>, eigenvectors |-> FromColumns(ex, a, b), scale |-> 5] :
            a \in {v1, Neg(v1)}, b \in {v2, Neg(v2)}}
       \cup
       {[eigenvalues |-> <<1, 50, 25>>, eigenvectors |-> FromColumns(ex, b, a), scale |-> 5] :
            a \in {v1, Neg(v1)}, b \in {v2, Neg(v2)}}

EigenProper ==
    [eigenvalues |-> <<1, 25, 50>>,
     eigenvectors |-> FromColumns(<<5, 0, 0>>, <<0, 3, 4>>, <<0, -4, 3>>), scale |-> 5]

Inertial(mass, origin, inertia) == [mass |-> mass, origin |-> origin, inertia |-> inertia]

Link(name, inertial, collision, visual) ==
    [name |-> name, inertial |-> inertial, collision |-> collision, visual |-> visual]

PlainLink(name) == Link(name, Inertial(0, OriginZero, InertiaZero), <<>>, <<>>)

Joint(name, joint_type, parent, child, origin, axis) ==
    [name |-> name, joint_type |-> joint_type, parent |-> parent, child |-> child,
     origin |-> origin, axis |-> axis]

JointTypes ==
    {"Revolute", "Continuous", "Prismatic", "Fixed", "Floating", "Planar", "Spherical"}

LinkNames == {"A", "B", "C"}

InitSchedule ==
    /\ pos = 1
    /\ field_done = FALSE
    /\ buffers = EmptyBuffers
    /\ world = <<>>
    /\ reserved = 0
    /\ panic = None

LinkNameAt(k) == <<"A", "B", "C", "D">>[k]
JointNameAt(k) == <<"j1", "j2", "j3", "j4">>[k]

(* bounds of the inputs *)
MaxJoints == 1
MaxInertiaLinks == 2
MaxColliderLinks == 1
MaxCollisions == 2
TreeMaxLinks == 3
TreeMaxJoints == 3

Visual(geometry, material, origin) ==
    [geometry |-> geometry, material |-> material, origin |-> origin]

VisualChoices ==
    {<<>>,
     <<Visual([kind |-> "Mesh", filename |-> "visual.stl", scale |-> Some(<<2, 2, 2>>)],
              Some([texture |-> None, color |-> Some(<<1, 0, 0, 1>>)]), OriginTurned)>>}

(* joints of every kind between the links A, B and C *)
KindJointChoices ==
    {[joint_type |-> t, parent |-> e[1], child |-> e[2], origin |-> o, axis |-> a] :
        t \in JointTypes,
        e \in {<<"A", "B">>, <<"B", "C">>, <<"A", "C">>},
        o \in {OriginZero, OriginTurned},
        a \in {<<0, 0, 1>>, <<1, 0, 0>>}}

NamedJoints(choices) ==
    [k \in DOMAIN choices |->
        Joint(JointNameAt(k), choices[k].joint_type, choices[k].parent, choices[k].child,
              choices[k].origin, choices[k].axis)]

KindDescriptions(max_joints) ==
    {[links |-> [k \in 1..n |->
                    Link(LinkNameAt(k), Inertial(0, OriginZero, InertiaZero), <<>>,
                         IF k = 1 THEN v ELSE <<>>)],
      joints |-> NamedJoints(c)] :
        n \in 2..3, v \in VisualChoices, c \in SeqsUpTo(KindJointChoices, max_joints)}

(* links with every inertial record, no joints *)
InertialChoices ==
    {[inertial |-> Inertial(m, OriginTurned, i), collision |-> c] :
        m \in {0, 2},
        i \in {InertiaZero, InertiaDiag123, InertiaCoupled},
        c \in {<<>>, <<[geometry |-> GeometryBox, origin |-> OriginZero]>>}}

InertiaDescriptions(max_links) ==
    {[links |-> [k \in DOMAIN c |->
                    Link(LinkNameAt(k), c[k].inertial, c[k].collision, <<>>)],
      joints |-> <<>>] :
        c \in SeqsUpTo(InertialChoices, max_links)}

(* links with every list of collision primitives, no joints *)
CollisionChoices ==
    {[geometry |-> GeometryBox, origin |-> OriginZero],
     [geometry |-> GeometryCylinder, origin |-> OriginZero],
     [geometry |-> GeometrySphere, origin |-> OriginTurned],
     [geometry |-> GeometryCapsule, origin |-> OriginTurned],
     [geometry |-> GeometryMesh, origin |-> OriginZero]}

ColliderDescriptions(max_links, max_collisions) ==
    {[links |-> [k \in DOMAIN c |->
                    Link(LinkNameAt(k), Inertial(0, OriginZero, InertiaZero), c[k], <<>>)],
      joints |-> <<>>] :
        c \in SeqsUpTo(SeqsUpTo(CollisionChoices, max_collisions), max_links)}

(* plain links under any names, fixed joints between any two names *)
TreeJointChoices ==
    {[joint_type |-> "Fixed", parent |-> p, child |-> c, origin |-> OriginZero,
      axis |-> <<0, 0, 1>>] : p \in LinkNames, c \in LinkNames}

TreeDescriptions(max_links, max_joints) ==
    {[links |-> [k \in DOMAIN l |-> PlainLink(l[k])], joints |-> NamedJoints(c)] :
        l \in SeqsUpTo(LinkNames, max_links),
        c \in SeqsUpTo(TreeJointChoices, max_joints)}

Init ==
    /\ urdf \in KindDescriptions(MaxJoints)
    /\ eigen = EigenProper
    /\ InitSchedule

InitInertia ==
    /\ urdf \in InertiaDescriptions(MaxInertiaLinks)
    /\ eigen \in EigenBases
    /\ InitSchedule

InitCollider ==
    /\ urdf \in ColliderDescriptions(MaxColliderLinks, MaxCollisions)
    /\ eigen = EigenProper
    /\ InitSchedule

InitTree ==
    /\ urdf \in TreeDescriptions(TreeMaxLinks, TreeMaxJoints)
    /\ eigen = EigenProper
    /\ InitSchedule

Spec == Init /\ [][Next]_vars
SpecInertia == InitInertia /\ [][Next]_vars
SpecCollider == InitCollider /\ [][Next]_vars
SpecTree == InitTree /\ [][Next]_vars

-----------------------------------------------------------------------------
(* Properties *)

Links == urdf.links
Joints == urdf.joints
DescribedLinkNames == {Links[k].name : k \in DOMAIN Links}

(* the entities that carry the name *)
EntitiesNamed(name) == {e \in NaoLinkEntities(world) : world[e].NaoLink = name}
EntityNamed(name) == CHOOSE e \in EntitiesNamed(name) : TRUE

(* the system has returned or panicked *)
SystemOver(name) ==
    \/ \E p \in 1..ChainLen : Chain[p] = name /\ pos > p
    \/ panic # None /\ panic[1].system = name

(* the commands of setup_links have been applied *)
LinksApplied == \E p \in 1..ChainLen : Chain[p] = "apply_system_buffers" /\ pos > p

(* the run is over: the schedule has finished or a system has panicked *)
RunOver == ScheduleFinished \/ panic # None

(* C1: setup_joints never starts before setup_links has finished for every
   link and its spawn commands have been applied: whenever setup_joints is
   the system to run, every link of the description has an entity carrying
   its name, there are as many link entities as links, and no command of
   setup_links is still buffered. *)
C1_JointsAfterLinksApplied ==
    AtSystem("setup_joints") =>
        /\ \A k \in DOMAIN Links : EntitiesNamed(Links[k].name) # {}
        /\ Cardinality(NaoLinkEntities(world)) = Len(Links)
        /\ buffers["setup_links"] = <<>>

C1_Witness ==
    /\ AtSystem("setup_joints")
    /\ Len(Links) = 3
    /\ Len(Joints) >= 1
    /\ Cardinality(NaoLinkEntities(world)) = 3

(* the name of the link or joint the panicking system was processing *)
OffenderName ==
    IF panic[1].system = "setup_joints" THEN Joints[panic[1].at].name
    ELSE Links[panic[1].at].name

MessageNames(message, name) == \E k \in DOMAIN message : message[k] = name

(* C2: compilation is all-or-nothing: whenever a link or joint triggers an
   error, no scene is left in which links have been instantiated while
   joints are not wired, and the error names the offending link or joint. *)
C2_AllOrNothing ==
    panic # None =>
        /\ NaoLinkEntities(world) = {}
        /\ MessageNames(panic[1].message, OffenderName)

DanglingJoints ==
    {k \in DOMAIN Joints :
        Joints[k].parent \notin DescribedLinkNames \/ Joints[k].child \notin DescribedLinkNames}

(* C3: for every joint whose parent_link or child_link matches no link of the
   description, wherever it occurs in the joint sequence, compilation yields
   the error UnknownLinkReference naming that joint. *)
C3_UnknownLinkReference ==
    (DanglingJoints # {} /\ RunOver) =>
        /\ panic # None
        /\ panic[1].message[1] = "UnknownLinkReference"
        /\ \E k \in DanglingJoints : MessageNames(panic[1].message, Joints[k].name)

HasDuplicateLinkNames ==
    \E a, b \in DOMAIN Links : a # b /\ Links[a].name = Links[b].name

(* C4: if two links of the description share a name, compilation yields the
   error DuplicateLink wherever the two links stand in the sequence; no
   name-to-entity mapping is built in which one shadows the other.  Stated on
   the descriptions whose joints all name described links, so that the
   duplicate is the only defect. *)
C4_DuplicateLink ==
    (HasDuplicateLinkNames /\ DanglingJoints = {} /\ RunOver) =>
        /\ panic # None
        /\ panic[1].message[1] = "DuplicateLink"

(* the n-th ancestor of the entity along Parent, None if there is none *)
RECURSIVE Ancestor(_, _)
Ancestor(e, n) ==
    IF n = 0 THEN Some(e)
    ELSE LET below == Ancestor(e, n - 1)
         IN IF below = None \/ "Parent" \notin DOMAIN world[below[1]] THEN None
            ELSE Some(world[below[1]].Parent)

ParentCycle ==
    \E e \in DOMAIN world : \E n \in 1..Cardinality(DOMAIN world) : Ancestor(e, n) = Some(e)

SharedChild == \E a, b \in DOMAIN Joints : a # b /\ Joints[a].child = Joints[b].child

(* C5: every scene graph compilation produces is a forest over the links: the
   parent-to-child relation has no cycle and no link is the child of more
   than one joint. *)
C5_Forest ==
    (ScheduleFinished /\ Running) => (~ParentCycle /\ ~SharedChild)

FreeAxes(data) == LOCKED_FIXED_AXES \ data.locked_axes

AnchorIs(data, translation) ==
    data.local_anchor1 = translation \/ data.local_anchor2 = translation

OnlyJointOfChild(k) == \A m \in DOMAIN Joints : Joints[m].child = Joints[k].child => m = k

UniqueLinkNames == ~HasDuplicateLinkNames

(* the constraint the kind stands for, on the entity `child` *)
ConstraintOfKind(joint, child, parent) ==
    LET has == "ImpulseJoint" \in DOMAIN world[child]
        ij == world[child].ImpulseJoint
        t == JointTranslation(joint)
    IN CASE joint.joint_type = "Continuous" -> ~has
         [] joint.joint_type = "Fixed" ->
                /\ has /\ ij.parent = parent
                /\ FreeAxes(ij.data) = {}
                /\ AnchorIs(ij.data, t)
                /\ ij.data.local_basis1 = JointRotation(joint)
         [] joint.joint_type = "Revolute" ->
                /\ has /\ ij.parent = parent
                /\ Cardinality(FreeAxes(ij.data) \cap AngAxes) = 1
                /\ FreeAxes(ij.data) \cap LinAxes = {}
                /\ ij.data.local_axis1 = Some(joint.axis)
                /\ AnchorIs(ij.data, t)
         [] joint.joint_type = "Prismatic" ->
                /\ has /\ ij.parent = parent
                /\ Cardinality(FreeAxes(ij.data) \cap LinAxes) = 1
                /\ FreeAxes(ij.data) \cap AngAxes = {}
                /\ ij.data.local_axis1 = Some(joint.axis)
                /\ AnchorIs(ij.data, t)
         [] joint.joint_type = "Spherical" ->
                /\ has /\ ij.parent = parent
                /\ FreeAxes(ij.data) = AngAxes
                /\ AnchorIs(ij.data, t)
         [] OTHER -> FALSE

(* C6: in the scene of a finished compilation, the constraint of every joint
   is determined by its kind: Fixed locks all six axes and carries anchor and
   orientation basis, Revolute leaves one rotational axis free about the
   joint's axis, Prismatic one translational axis along it, Spherical the
   three rotational axes with the anchor fixed; the constraint is a component
   of the child link's entity and references the parent link's entity; a
   Continuous joint leaves no constraint.  Stated for the joints that are the
   only joint of their child link (a later constraint on the same child
   replaces the earlier one). *)
C6_ConstraintByKind ==
    (ScheduleFinished /\ Running /\ UniqueLinkNames) =>
        \A k \in DOMAIN Joints :
            OnlyJointOfChild(k) =>
                ConstraintOfKind(Joints[k], EntityNamed(Joints[k].child),
                                 EntityNamed(Joints[k].parent))

C6_Witness ==
    /\ ScheduleFinished /\ Running
    /\ Len(Joints) >= 1
    /\ Joints[1].joint_type = "Revolute"
    /\ Joints[1].origin = OriginTurned
    /\ "ImpulseJoint" \in DOMAIN world[EntityNamed(Joints[1].child)]
    /\ world[EntityNamed(Joints[1].child)].ImpulseJoint.parent = EntityNamed(Joints[1].parent)

HasMeshCollision(link) ==
    \E k \in DOMAIN link.collision : link.collision[k].geometry.kind = "Mesh"

(* C7: unsupported kinds are reported as errors, never as a crash or a silent
   skip: a Planar or Floating joint makes the joint mapping fail with
   UnsupportedJointKind, a collision primitive with Mesh geometry makes the
   collider compilation fail with UnsupportedGeometry. *)
C7_UnsupportedReported ==
    /\ ((\E k \in DOMAIN Links : HasMeshCollision(Links[k])) /\ SystemOver("setup_links"))
            => (panic # None /\ panic[1].message[1] = "UnsupportedGeometry")
    /\ ((\E k \in DOMAIN Joints : Joints[k].joint_type \in TodoJointTypes)
            /\ DanglingJoints = {} /\ SystemOver("setup_joints"))
            => (panic # None /\ panic[1].message[1] = "UnsupportedJointKind")

ShapeOfKind(kind) ==
    CASE kind = "Box" -> "cuboid"
      [] kind = "Cylinder" -> "cylinder"
      [] kind = "Sphere" -> "ball"
      [] kind = "Capsule" -> "capsule_z"
      [] OTHER -> "none"

(* C8: once the links are instantiated, every link has exactly one entity; the
   entity carries a collider if and only if the link has at least one
   collision primitive, and the collider is one compound shape with as many
   sub-shapes as the link has primitives, in the same order, each of the
   primitive's shape and at the frame of the primitive's origin. *)
C8_ColliderIffPrimitives ==
    (LinksApplied /\ UniqueLinkNames) =>
        \A k \in DOMAIN Links :
            /\ Cardinality(EntitiesNamed(Links[k].name)) = 1
            /\ LET e == world[EntityNamed(Links[k].name)]
                   prims == Links[k].collision
               IN /\ ("Collider" \in DOMAIN e) <=> (prims # <<>>)
                  /\ ("Collider" \in DOMAIN e) =>
                        /\ e.Collider.shape = "compound"
                        /\ Len(e.Collider.shapes) = Len(prims)
                        /\ \A m \in DOMAIN prims :
                            /\ e.Collider.shapes[m].collider.shape
                                   = ShapeOfKind(prims[m].geometry.kind)
                            /\ e.Collider.shapes[m].position = prims[m].origin.xyz
                            /\ e.Collider.shapes[m].rotation
                                   = MatMul(MatMul(RotZ(prims[m].origin.rpy[3]),
                                                   RotY(prims[m].origin.rpy[2])),
                                            RotX(prims[m].origin.rpy[1]))

C8_Witness ==
    /\ LinksApplied
    /\ Len(Links) >= 1
    /\ Len(Links[1].collision) = 2
    /\ Links[1].collision[1].geometry.kind = "Box"
    /\ Links[1].collision[2].geometry.kind = "Capsule"
    /\ Len(world[EntityNamed(Links[1].name)].Collider.shapes) = 2

C8_WitnessNoCollider ==
    /\ LinksApplied
    /\ Len(Links) >= 1
    /\ Links[1].collision = <<>>
    /\ "Collider" \notin DOMAIN world[EntityNamed(Links[1].name)]

HasMassPropertiesRecord(e) ==
    /\ "ColliderMassProperties" \in DOMAIN e
    /\ e.ColliderMassProperties.variant = "MassProperties"

(* C9: once the links are instantiated, the entity of a link whose inertia
   tensor is the zero matrix carries no mass-properties record, whatever the
   link's mass and center of mass. *)
C9_ZeroTensorNoMassProperties ==
    (LinksApplied /\ UniqueLinkNames) =>
        \A k \in DOMAIN Links :
            Links[k].inertial.inertia = InertiaZero =>
                ~HasMassPropertiesRecord(world[EntityNamed(Links[k].name)])

C9_Witness ==
    /\ LinksApplied
    /\ Len(Links) = 2
    /\ Links[1].inertial.inertia = InertiaZero
    /\ Links[1].inertial.mass > 0
    /\ ~HasMassPropertiesRecord(world[EntityNamed(Links[1].name)])
    /\ Links[2].inertial.inertia = InertiaCoupled
    /\ HasMassPropertiesRecord(world[EntityNamed(Links[2].name)])

IsNonZeroDiagonal(inertia) ==
    /\ inertia # InertiaZero
    /\ IsDiagonal(InertiaMatrix(inertia))

(* C10: diagonalizing a nonzero tensor that is already diagonal succeeds: the
   loop of setup_links does not fail at such a link, and once the links are
   instantiated its entity carries mass properties whose principal_inertia is
   the three diagonal entries and whose orientation is the identity. *)
C10_DiagonalTensorSucceeds ==
    \A k \in DOMAIN Links :
        IsNonZeroDiagonal(Links[k].inertial.inertia) =>
            /\ ~(panic # None /\ panic[1].system = "setup_links" /\ panic[1].at = k)
            /\ (LinksApplied /\ UniqueLinkNames) =>
                LET e == world[EntityNamed(Links[k].name)]
                    i == Links[k].inertial.inertia
                IN /\ HasMassPropertiesRecord(e)
                   /\ e.ColliderMassProperties.principal_inertia = <<i.ixx, i.iyy, i.izz>>
                   /\ e.ColliderMassProperties.principal_inertia_local_frame
                          = [matrix |-> Matrix3identity, scale |-> 1]

-----------------------------------------------------------------------------
(* a decomposition whose eigenvector matrix is not orthonormal (two columns
   coincide), as SymmetricEigen returns for a tensor it cannot decompose, such
   as one with non-finite entries *)
EigenNotOrthonormal ==
    [eigenvalues |-> <<1, 25, 25>>,
     eigenvectors |-> FromColumns(<<5, 0, 0>>, <<0, 3, 4>>, <<0, 3, 4>>), scale |-> 5]

InitEigenFault ==
    /\ urdf \in InertiaDescriptions(MaxInertiaLinks)
    /\ eigen = EigenNotOrthonormal
    /\ InitSchedule

SpecEigenFault == InitEigenFault /\ [][Next]_vars

NotOrthonormalAt(k) ==
    LET m == InertiaMatrix(Links[k].inertial.inertia)
    IN InertiaIsNonZero(m) /\ ~IsOrthogonal(SymmetricEigen(m, eigen))

(* C11: when the eigen-decomposition of a link's nonzero inertia tensor yields
   an eigenvector matrix that is not orthonormal, diagonalization returns the
   error InvalidInertiaTensor identifying that link and does not panic.
   Stated for the first link at which setup_links stops. *)
C11_InvalidInertiaTensorReported ==
    \A k \in DOMAIN Links :
        (NotOrthonormalAt(k) /\ FirstLinkPanic(Links, eigen) = k /\ SystemOver("setup_links"))
            => /\ panic # None
               /\ panic[1].message[1] = "InvalidInertiaTensor"
               /\ MessageNames(panic[1].message, Links[k].name)

-----------------------------------------------------------------------------
(* the entities that take part in collision detection: those with a collider *)
Bodies == {e \in DOMAIN world : "Collider" \in DOMAIN world[e]}

LinkBodies == Bodies \cap NaoLinkEntities(world)

BodiesNamed(name) ==
    {e \in Bodies : "Name" \in DOMAIN world[e] /\ world[e].Name = name}

(* the groups of a body; a body without the component is in every group and
   filters every group *)
GroupsOf(e) ==
    IF "CollisionGroups" \in DOMAIN world[e] THEN world[e].CollisionGroups
    ELSE CollisionGroupsNew(GroupALL, GroupALL)

(* two bodies interact only if each one's membership intersects the other's
   filter *)
Interact(a, b) ==
    /\ GroupsOf(a).memberships \cap GroupsOf(b).filters # {}
    /\ GroupsOf(b).memberships \cap GroupsOf(a).filters # {}

(* C12: under the collision groups the setup assigns, every robot link with a
   collider interacts with the field and with the ball, no two robot links
   interact with each other, and the field and the ball interact. *)
C12_CollisionGroups ==
    /\ \A l \in LinkBodies :
        \A o \in BodiesNamed("field") \cup BodiesNamed("ball") : Interact(l, o)
    /\ \A l1, l2 \in LinkBodies : l1 # l2 => ~Interact(l1, l2)
    /\ \A f \in BodiesNamed("field") : \A b \in BodiesNamed("ball") : Interact(f, b)

C12_Witness ==
    /\ ScheduleFinished
    /\ Cardinality(LinkBodies) = 2
    /\ Cardinality(BodiesNamed("field")) = 1
    /\ Cardinality(BodiesNamed("ball")) = 1
    /\ \A l \in LinkBodies : Interact(l, CHOOSE f \in BodiesNamed("field") : TRUE)

-----------------------------------------------------------------------------
(* the frame an origin record stands for: R_z(yaw) R_y(pitch) R_x(roll) with
   rpy = (roll, pitch, yaw), together with the translation *)
ComposedRotation(origin) ==
    MatMul(MatMul(RotZ(origin.rpy[3]), RotY(origin.rpy[2])), RotX(origin.rpy[1]))

CollisionOriginsComposed ==
    (LinksApplied /\ UniqueLinkNames) =>
        \A k \in DOMAIN Links :
            LET e == world[EntityNamed(Links[k].name)]
            IN \A m \in DOMAIN Links[k].collision :
                /\ e.Collider.shapes[m].position = Links[k].collision[m].origin.xyz
                /\ e.Collider.shapes[m].rotation
                       = ComposedRotation(Links[k].collision[m].origin)

(* every visual of a link has an entity below the link's entity, at the frame
   of the visual's origin *)
VisualOriginsComposed ==
    (ScheduleFinished /\ Running /\ UniqueLinkNames) =>
        \A k \in DOMAIN Links :
            \A v \in DOMAIN Links[k].visual :
                \E e \in DOMAIN world :
                    /\ "Mesh" \in DOMAIN world[e]
                    /\ "Parent" \in DOMAIN world[e]
                    /\ world[e].Parent = EntityNamed(Links[k].name)
                    /\ world[e].Transform.translation = Links[k].visual[v].origin.xyz
                    /\ world[e].Transform.rotation
                           = ComposedRotation(Links[k].visual[v].origin)

(* the child link of a joint is placed at the frame of the joint's origin *)
JointOriginsComposed ==
    (ScheduleFinished /\ Running /\ UniqueLinkNames) =>
        \A k \in DOMAIN Joints :
            OnlyJointOfChild(k) =>
                LET e == world[EntityNamed(Joints[k].child)]
                IN /\ e.Transform.translation = Joints[k].origin.xyz
                   /\ e.Transform.rotation = ComposedRotation(Joints[k].origin)

(* the mass properties are placed at the frame of the inertial origin: the
   center of mass at its translation, the principal axes (the eigenvectors of
   the tensor, which is given in the inertial frame) turned by its rotation *)
InertialOriginsComposed ==
    (LinksApplied /\ UniqueLinkNames) =>
        \A k \in DOMAIN Links :
            LET e == world[EntityNamed(Links[k].name)]
                inertial == Links[k].inertial
                evd == SymmetricEigen(InertiaMatrix(inertial.inertia), eigen)
            IN HasMassPropertiesRecord(e) =>
                /\ e.ColliderMassProperties.local_center_of_mass = inertial.origin.xyz
                /\ e.ColliderMassProperties.principal_inertia_local_frame
                       = [matrix |-> MatMul(ComposedRotation(inertial.origin),
                                            evd.eigenvectors),
                          scale |-> evd.scale]

(* C13: every origin record is resolved with the same frame composition,
   rotation R_z(yaw) R_y(pitch) R_x(roll) together with the origin's
   translation, alike for collision, visual, joint and inertial origins: no
   call site drops or reorders the rpy triple. *)
C13_OriginsComposedAlike ==
    /\ CollisionOriginsComposed
    /\ VisualOriginsComposed
    /\ JointOriginsComposed
    /\ InertialOriginsComposed

-----------------------------------------------------------------------------
(* the kinds whose arm of the match inserts an ImpulseJoint *)
ConstraintKinds == {"Revolute", "Prismatic", "Fixed", "Spherical"}

(* C14: for every joint that emits a constraint, the anchor of the constraint
   is the joint origin set on the child's side of the constraint (side 2, the
   entity that carries the constraint), not on the parent's.  Stated for the
   joints that are the only joint of their child link. *)
C14_AnchorOnChildSide ==
    (ScheduleFinished /\ Running /\ UniqueLinkNames) =>
        \A k \in DOMAIN Joints :
            (OnlyJointOfChild(k) /\ Joints[k].joint_type \in ConstraintKinds) =>
                LET child == world[EntityNamed(Joints[k].child)]
                IN /\ "ImpulseJoint" \in DOMAIN child
                   /\ child.ImpulseJoint.data.local_anchor2 = JointTranslation(Joints[k])

-----------------------------------------------------------------------------
HasPlainMass(e) ==
    /\ "ColliderMassProperties" \in DOMAIN e
    /\ e.ColliderMassProperties.variant = "Mass"

(* C15: once setup_links has run and its commands are applied, the mass
   component of each link is the one inserted last: with a nonzero inertia
   tensor the full mass-properties record and not the plain mass, whatever the
   mass; with a zero tensor and a positive mass the plain mass only; with a
   zero tensor and no positive mass neither.  The link is a fixed rigid body
   exactly if its mass is positive, whatever its tensor and collider, and it
   has collision groups exactly if it has a collider. *)
C15_MassComponentByInsertOrder ==
    (LinksApplied /\ UniqueLinkNames) =>
        \A k \in DOMAIN Links :
            LET e == world[EntityNamed(Links[k].name)]
                inertial == Links[k].inertial
                nonzero == InertiaMatrix(inertial.inertia) # Matrix3zeros
            IN /\ nonzero =>
                    /\ HasMassPropertiesRecord(e)
                    /\ ~HasPlainMass(e)
                    /\ e.ColliderMassProperties.mass = inertial.mass
               /\ (~nonzero /\ inertial.mass > 0) =>
                    /\ HasPlainMass(e)
                    /\ e.ColliderMassProperties.mass = inertial.mass
               /\ (~nonzero /\ inertial.mass <= 0) =>
                    "ColliderMassProperties" \notin DOMAIN e
               /\ ("RigidBody" \in DOMAIN e) <=> (inertial.mass > 0)
               /\ ("RigidBody" \in DOMAIN e) => e.RigidBody = "Fixed"
               /\ ("CollisionGroups" \in DOMAIN e) <=> ("Collider" \in DOMAIN e)
               /\ ("Collider" \in DOMAIN e) <=> (Links[k].collision # <<>>)

C15_Witness ==
    /\ LinksApplied
    /\ Len(Links) = 2
    /\ Links[1].inertial.inertia = InertiaCoupled
    /\ Links[1].inertial.mass > 0
    /\ Links[1].collision = <<>>
    /\ HasMassPropertiesRecord(world[EntityNamed(Links[1].name)])
    /\ world[EntityNamed(Links[1].name)].RigidBody = "Fixed"
    /\ Links[2].inertial.inertia = InertiaZero
    /\ Links[2].inertial.mass > 0
    /\ Links[2].collision # <<>>
    /\ HasPlainMass(world[EntityNamed(Links[2].name)])
    /\ "CollisionGroups" \in DOMAIN world[EntityNamed(Links[2].name)]

C15_WitnessNoMass ==
    /\ LinksApplied
    /\ Len(Links) >= 1
    /\ Links[1].inertial.inertia = InertiaZero
    /\ Links[1].inertial.mass <= 0
    /\ "ColliderMassProperties" \notin DOMAIN world[EntityNamed(Links[1].name)]
    /\ "RigidBody" \notin DOMAIN world[EntityNamed(Links[1].name)]

====
